---- MODULE Spec2Model ----
(***************************************************************************)
(* The Documents page of the console (src/src/pages/index/documents.tsx)   *)
(* as a state machine.  The state is the component's reactive state: the   *)
(* selected index, the two forms, the two polled queries, the modals, the  *)
(* document under edit and the mutation requests in flight.  Every handler *)
(* of the component is one action.  The remote client, the query layer     *)
(* (react-query v3), the form container (@mantine/form) and the modals are *)
(* external libraries; their documented behaviour is what the handlers     *)
(* rely on and is stated next to the action that uses it.                  *)
(*                                                                         *)
(* Strings whose characters matter (the sort expression) are sequences of  *)
(* one-character strings.                                                  *)
(***************************************************************************)
EXTENDS Naturals, Sequences, FiniteSets

VARIABLES
    currentIndex,              \* searchParams.get('index')?.trim(), or NoIndex
    limit,                     \* searchForm.values.limit
    sort,                      \* searchForm.values.sort
    limitError,                \* searchForm.errors.limit
    documents,                 \* addDocumentsForm.values.documents
    documentsError,            \* addDocumentsForm.errors.documents
    pkData,                    \* indexPrimaryKeyQuery.data, with the index it came from
    pkFetching,                \* indexPrimaryKeyQuery has a request in flight
    searchData,                \* searchDocumentsQuery.data: the index whose hits are shown
    searchFetching,            \* searchDocumentsQuery has a request in flight
    isAddDocumentsModalOpen,
    isEditDocumentsModalOpen,
    editingDocument,
    confirmModal,              \* the open "Delete a document" dialog, or NoConfirm
    mutations,                 \* add / update / delete requests in flight
    ev                         \* what the last handler did: calls, notifications, refetches

vars == <<currentIndex, limit, sort, limitError, documents, documentsError,
          pkData, pkFetching, searchData, searchFetching,
          isAddDocumentsModalOpen,
          isEditDocumentsModalOpen, editingDocument, confirmModal, mutations, ev>>

searchVars == <<limit, sort, limitError>>
addVars    == <<documents, documentsError, isAddDocumentsModalOpen>>
queryVars  == <<pkData, pkFetching, searchData, searchFetching>>
editVars   == <<isEditDocumentsModalOpen, editingDocument>>

----------------------------------------------------------------------------
(* Bounds of the model.                                                    *)

MaxSortLen  == 4      \* characters typed into the sort field
MaxDocs     == 2      \* elements the JSON editor appends to the pending batch
MaxInFlight == 1      \* mutation requests in flight at once

----------------------------------------------------------------------------
(* Values.                                                                 *)

NoIndex   == "<none>"
Indexes   == {"A", "B"}

Undefined == "<undefined>"
Null      == "<null>"

\* JavaScript truthiness of a primary-key value, as tested by `if (pk)`.
Truthy(v) == v \notin {Undefined, Null, ""}

\* What the remote answers to getRawInfo(): index A has a primary key,
\* index B has none configured.
PrimaryKey(i) == IF i = "A" THEN "id" ELSE Null

NoPk == [val |-> Undefined, from |-> NoIndex]

\* A hit returned by a search of index i; rev counts edits in the tree editor.
Hit(i) == [index |-> i, rev |-> 0]
NoDoc  == [index |-> NoIndex, rev |-> 0]

\* The requests a mutation can have in flight: its kind, and whether it was
\* sent (there was an index client) or the mutation function threw on an
\* undefined client.  mutations counts the requests in flight of each.
Requests == [kind : {"add", "update", "delete"}, sent : BOOLEAN]

NoConfirm == [open |-> FALSE, pkFrom |-> NoIndex, docFrom |-> NoIndex]

LimitMsg == "limit search value allow (<500) in this ui console for performance"
DocsMsg  == "Added documents should be JSON Array whose length > 0"
NoError  == "<null>"

InitialLimit == 20
LimitCap     == 500
Limits       == {InitialLimit, LimitCap - 1, LimitCap, LimitCap + 1}

SortAlphabet == {"a", "b", " ", ","}
Whitespace   == {" "}

----------------------------------------------------------------------------
(* The sort expression, as the search queryFn forwards it:                 *)
(*   sort.split(',').filter((v) => v.trim().length > 0).map((v) => v.trim()) *)

Min(S) == CHOOSE x \in S : \A y \in S : x <= y
Max(S) == CHOOSE x \in S : \A y \in S : x >= y

\* String.prototype.split(','): the segments between commas; '' gives [''].
RECURSIVE Split(_)
Split(s) ==
    LET commas == {i \in 1..Len(s) : s[i] = ","}
    IN  IF commas = {}
        THEN <<s>>
        ELSE LET i == Min(commas)
             IN  <<SubSeq(s, 1, i - 1)>> \o Split(SubSeq(s, i + 1, Len(s)))

\* String.prototype.trim(): what lies between the first and the last
\* character that is not white space.
Trim(s) ==
    LET solid == {i \in 1..Len(s) : s[i] \notin Whitespace}
    IN  IF solid = {} THEN <<>> ELSE SubSeq(s, Min(solid), Max(solid))

KeepSegment(v) == Len(Trim(v)) > 0

\* A variant that filters on the trimmed segment but forwards it untrimmed.
SortList_Untrimmed(s) == SelectSeq(Split(s), KeepSegment)

SortList(s) ==
    LET kept == SelectSeq(Split(s), KeepSegment)
    IN  [i \in 1..Len(kept) |-> Trim(kept[i])]

----------------------------------------------------------------------------
(* Calls to the remote client and the record of what a handler did.        *)

Call(api, client, l, s, docs, docFrom, pkFrom) ==
    [api |-> api, client |-> client, limit |-> l, sort |-> s,
     docs |-> docs, docFrom |-> docFrom, pkFrom |-> pkFrom]

\* indexClient?.getRawInfo()
GetRawInfoCall(i) == Call("getRawInfo", i, 0, <<>>, <<>>, NoIndex, NoIndex)

\* indexClient!.search(q, {limit, offset, filter, sort: ...}); the client is
\* undefined (NoIndex) when no index is selected, and the call then throws.
SearchCall(i, l, s) == Call("search", i, l, SortList(s), <<>>, NoIndex, NoIndex)

AddDocumentsCall(i, docs)     == Call("addDocuments", i, 0, <<>>, docs, NoIndex, NoIndex)
UpdateDocumentsCall(i, doc)   == Call("updateDocuments", i, 0, <<>>, <<>>, doc.index, NoIndex)
DeleteDocumentsCall(i, d, pk) == Call("deleteDocuments", i, 0, <<>>, <<>>, d, pk)

NoClip == [ok |-> TRUE, items |-> <<>>]

Event(op, calls, notifs, refetch) ==
    [op |-> op, calls |-> calls, notifs |-> notifs, refetch |-> refetch, clip |-> NoClip]

CallsOf(e)    == {e.calls[k] : k \in 1..Len(e.calls)}
Count(seq, x) == Cardinality({k \in 1..Len(seq) : seq[k] = x})

----------------------------------------------------------------------------
(* The two queries.  useQuery fetches when its key changes and the query   *)
(* is enabled, polls at refetchInterval while enabled, joins a request     *)
(* already in flight instead of starting a second one, and with            *)
(* keepPreviousData keeps showing the last data until the new key has its  *)
(* own.  The query cache is left out: data served from it on a key change  *)
(* is the state reached when the new request has just been answered.       *)

enabled == currentIndex # NoIndex

\* The requests both queries issue when the index part of their keys changes.
KeyChangeCalls(i, l, s) ==
    IF i = NoIndex THEN <<>> ELSE <<GetRawInfoCall(i), SearchCall(i, l, s)>>

\* (await indexClient?.getRawInfo())?.primaryKey
indexPrimaryKeyQueryFn(i) == IF i = NoIndex THEN Undefined ELSE PrimaryKey(i)

\* searchDocumentsQuery.refetch(): runs the queryFn whether or not the query
\* is enabled, unless a request for the current key is already in flight.
RefetchCalls == IF searchFetching THEN <<>> ELSE <<SearchCall(currentIndex, limit, sort)>>
RefetchFetching == searchFetching \/ enabled

----------------------------------------------------------------------------
(* Construction: the index comes from the URL; an enabled query fetches on *)
(* mount.                                                                  *)

Init ==
    /\ currentIndex \in Indexes \cup {NoIndex}
    /\ limit = InitialLimit
    /\ sort = <<>>
    /\ limitError = NoError
    /\ documents = <<>>
    /\ documentsError = NoError
    /\ pkData = NoPk
    /\ pkFetching = enabled
    /\ searchData = NoIndex
    /\ searchFetching = enabled
    /\ isAddDocumentsModalOpen = FALSE
    /\ isEditDocumentsModalOpen = FALSE
    /\ editingDocument = NoDoc
    /\ confirmModal = NoConfirm
    /\ mutations = [r \in Requests |-> 0]
    /\ ev = Event("mount", KeyChangeCalls(currentIndex, limit, sort), <<>>, 0)

\* The search bar and the hit list are rendered only while an index is
\* selected, and an open modal covers them.
pageShown ==
    /\ enabled
    /\ ~isAddDocumentsModalOpen
    /\ ~isEditDocumentsModalOpen
    /\ ~confirmModal.open

\* The index in the URL changes: both query keys change, the previous data
\* stays on screen, and the component's other state is kept.
Navigate(i) ==
    /\ i # currentIndex
    /\ currentIndex' = i
    /\ pkFetching' = (i # NoIndex)
    /\ searchFetching' = (i # NoIndex)
    /\ ev' = Event("navigate", KeyChangeCalls(i, limit, sort), <<>>, 0)
    /\ UNCHANGED <<searchVars, addVars, editVars, pkData, searchData, confirmModal, mutations>>

\* refetchInterval: 30000
PrimaryKeyPoll ==
    /\ enabled /\ ~pkFetching
    /\ pkFetching' = TRUE
    /\ ev' = Event("primaryKeyPoll", <<GetRawInfoCall(currentIndex)>>, <<>>, 0)
    /\ UNCHANGED <<currentIndex, searchVars, addVars, editVars, pkData, searchData,
                   searchFetching, confirmModal, mutations>>

PrimaryKeyOk ==
    /\ pkFetching
    /\ pkFetching' = FALSE
    /\ pkData' = [val |-> indexPrimaryKeyQueryFn(currentIndex), from |-> currentIndex]
    /\ ev' = Event("primaryKeyOk", <<>>, <<>>, 0)
    /\ UNCHANGED <<currentIndex, searchVars, addVars, editVars, searchData,
                   searchFetching, confirmModal, mutations>>

PrimaryKeyFail ==
    /\ pkFetching
    /\ pkFetching' = FALSE
    /\ ev' = Event("primaryKeyFail", <<>>, <<>>, 0)
    /\ UNCHANGED <<currentIndex, searchVars, addVars, editVars, pkData, searchData,
                   searchFetching, confirmModal, mutations>>

\* refetchInterval: 5000
SearchPoll ==
    /\ enabled /\ ~searchFetching
    /\ searchFetching' = TRUE
    /\ ev' = Event("searchPoll", <<SearchCall(currentIndex, limit, sort)>>, <<>>, 0)
    /\ UNCHANGED <<currentIndex, searchVars, addVars, editVars, pkData, pkFetching,
                   searchData, confirmModal, mutations>>

SearchOk ==
    /\ searchFetching
    /\ searchFetching' = FALSE
    /\ searchData' = currentIndex
    /\ ev' = Event("searchOk", <<>>, <<>>, 0)
    /\ UNCHANGED <<currentIndex, searchVars, addVars, editVars, pkData, pkFetching,
                   confirmModal, mutations>>

SearchFail ==
    /\ searchFetching
    /\ searchFetching' = FALSE
    /\ ev' = Event("searchFail", <<>>, <<>>, 0)
    /\ UNCHANGED <<currentIndex, searchVars, addVars, editVars, pkData, pkFetching,
                   searchData, confirmModal, mutations>>

----------------------------------------------------------------------------
(* The search form.  Its values are part of the search query key, so every *)
(* change of a field starts a search with the new values; the form         *)
(* validates on submit only, and a change of a field clears its error.     *)

\* A variant of the rule that lets the cap itself through.
validateLimit_Inclusive(value) == IF value <= LimitCap THEN NoError ELSE LimitMsg

\* searchForm.validate.limit
validateLimit(value) == IF value < LimitCap THEN NoError ELSE LimitMsg

\* <NumberInput label="Limit" {...searchForm.getInputProps('limit')} />
SetLimit(v) ==
    /\ pageShown
    /\ v # limit
    /\ limit' = v
    /\ limitError' = NoError
    /\ searchFetching' = TRUE
    /\ ev' = Event("setLimit", <<SearchCall(currentIndex, v, sort)>>, <<>>, 0)
    /\ UNCHANGED <<currentIndex, sort, addVars, editVars, pkData, pkFetching, searchData,
                   confirmModal, mutations>>

SortChanged(s) ==
    /\ sort' = s
    /\ searchFetching' = TRUE
    /\ ev' = Event("setSort", <<SearchCall(currentIndex, limit, s)>>, <<>>, 0)
    /\ UNCHANGED <<currentIndex, limit, limitError, addVars, editVars, pkData, pkFetching,
                   searchData, confirmModal, mutations>>

\* <TextInput label="Sort" {...searchForm.getInputProps('sort')} />: a key stroke
TypeSort(c) ==
    /\ pageShown
    /\ Len(sort) < MaxSortLen
    /\ SortChanged(Append(sort, c))

EraseSort ==
    /\ pageShown
    /\ Len(sort) > 0
    /\ SortChanged(SubSeq(sort, 1, Len(sort) - 1))

\* onSearchSubmit
onSearchSubmit ==
    /\ searchFetching' = RefetchFetching
    /\ ev' = Event("searchSubmit", RefetchCalls, <<>>, 1)

\* searchForm.onSubmit(onSearchSubmit): validate, then run the handler or
\* set the errors.
SearchSubmit ==
    /\ pageShown
    /\ limitError' = validateLimit(limit)
    /\ IF validateLimit(limit) = NoError
       THEN onSearchSubmit
       ELSE /\ ev' = Event("searchSubmit", <<>>, <<>>, 0)
            /\ UNCHANGED searchFetching
    /\ UNCHANGED <<currentIndex, limit, sort, addVars, editVars, pkData, pkFetching,
                   searchData, confirmModal, mutations>>

----------------------------------------------------------------------------
(* Adding documents.                                                       *)

\* What navigator.clipboard.read() can give: a rejected read, or a list of
\* items, each with its types and (for text/plain) its text.
TextItem(t) == [types |-> {"text/plain"}, text |-> t]
ImageItem   == [types |-> {"image/png"}, text |-> ""]

ClipTexts == {"[{}]", "[{},{}]", "[]", "{}", "1", "\"s\"", "true", "null", "oops"}

Clipboards ==
    {[ok |-> FALSE, items |-> <<>>], [ok |-> TRUE, items |-> <<>>],
     [ok |-> TRUE, items |-> <<ImageItem>>],
     [ok |-> TRUE, items |-> <<ImageItem, TextItem("[{}]")>>]}
    \cup {[ok |-> TRUE, items |-> <<TextItem(t)>>] : t \in ClipTexts}

\* JSON.parse on the texts above: the type of the value, and for an array the
\* texts of its elements; ok is FALSE where JSON.parse throws.
Json(type, items) == [ok |-> TRUE, type |-> type, items |-> items]
JSONParse(t) ==
    CASE t = "[{}]"    -> Json("array", <<"{}">>)
      [] t = "[{},{}]" -> Json("array", <<"{}", "{}">>)
      [] t = "[]"      -> Json("array", <<>>)
      [] t = "{}"      -> Json("object", <<>>)
      [] t = "1"       -> Json("number", <<>>)
      [] t = "\"s\""   -> Json("string", <<>>)
      [] t = "true"    -> Json("boolean", <<>>)
      [] t = "null"    -> Json("null", <<>>)
      [] OTHER         -> [ok |-> FALSE, type |-> "SyntaxError", items |-> <<>>]

\* A variant that tests typeof json === 'object', which is true of null.
isObject_TypeOf(json) == json.type \in {"object", "array", "null"}

\* lodash: _.isArray, _.isObject (true of arrays and objects, false of null)
isArray(json)  == json.type = "array"
isObject(json) == json.type \in {"object", "array"}

\* onAddDocumentsClick, from the clipboard read on: the array it would put in
\* the form; <<>> also where the handler has thrown before reaching line 132.
clipboardArr(clip) ==
    IF ~clip.ok \/ Len(clip.items) = 0
    THEN <<>>
    ELSE LET firstContent == clip.items[1]
         IN  IF "text/plain" \notin firstContent.types
             THEN <<>>
             ELSE LET json == JSONParse(firstContent.text)
                  IN  IF ~json.ok THEN <<>>
                      ELSE IF isArray(json) THEN json.items
                      ELSE IF isObject(json) THEN <<firstContent.text>>
                      ELSE <<>>

onAddDocumentsClick(clip) ==
    /\ pageShown
    /\ isAddDocumentsModalOpen' = TRUE
    /\ LET arr == clipboardArr(clip)
       IN  IF Len(arr) > 0
           THEN documents' = arr /\ documentsError' = NoError
           ELSE UNCHANGED <<documents, documentsError>>
    /\ ev' = [Event("onAddDocumentsClick", <<>>, <<>>, 0) EXCEPT !.clip = clip]
    /\ UNCHANGED <<currentIndex, searchVars, queryVars, editVars, confirmModal, mutations>>

DocumentsChanged(d) ==
    /\ isAddDocumentsModalOpen
    /\ documents' = d
    /\ documentsError' = NoError
    /\ ev' = Event("onAddDocumentsJsonEditorUpdate", <<>>, <<>>, 0)
    /\ UNCHANGED <<currentIndex, searchVars, queryVars, editVars, isAddDocumentsModalOpen,
                   confirmModal, mutations>>

RemoveAt(seq, k) == SubSeq(seq, 1, k - 1) \o SubSeq(seq, k + 1, Len(seq))

\* onAddDocumentsJsonEditorUpdate as the editor's onAdd: a new null element
EditorAdd ==
    /\ Len(documents) < MaxDocs
    /\ DocumentsChanged(Append(documents, "null"))

\* ... as onEdit: an element becomes an object
EditorEdit(k) ==
    /\ documents[k] # "{}"
    /\ DocumentsChanged([documents EXCEPT ![k] = "{}"])

\* ... as onDelete
EditorDelete(k) == DocumentsChanged(RemoveAt(documents, k))

\* A variant of the rule that accepts the empty array.
validateDocuments_AllowEmpty(value) == IF Len(value) >= 0 THEN NoError ELSE DocsMsg

\* addDocumentsForm.validate.documents (its notification is shown by AddSubmit)
validateDocuments(value) == IF Len(value) > 0 THEN NoError ELSE DocsMsg

RECURSIVE Total(_, _)
Total(f, S) ==
    IF S = {} THEN 0
    ELSE LET r == CHOOSE x \in S : TRUE IN f[r] + Total(f, S \ {r})

InFlight == Total(mutations, Requests)

\* mutation.mutate(variables): one more request in flight, sent through the
\* index client of the current render.
Mutate(kind) ==
    [mutations EXCEPT ![[kind |-> kind, sent |-> currentIndex # NoIndex]] = @ + 1]

\* onAddDocumentsSubmit
onAddDocumentsSubmit ==
    /\ InFlight < MaxInFlight
    /\ mutations' = Mutate("add")
    /\ ev' = Event("addSubmit", <<AddDocumentsCall(currentIndex, documents)>>, <<>>, 0)

\* addDocumentsForm.onSubmit(onAddDocumentsSubmit)
AddSubmit ==
    /\ isAddDocumentsModalOpen
    /\ documentsError' = validateDocuments(documents)
    /\ IF validateDocuments(documents) = NoError
       THEN onAddDocumentsSubmit
       ELSE /\ ev' = Event("addSubmit", <<>>, <<"yellow">>, 0)
            /\ UNCHANGED mutations
    /\ UNCHANGED <<currentIndex, searchVars, queryVars, editVars, documents,
                   isAddDocumentsModalOpen, confirmModal>>

\* The add modal's onClose
AddClose ==
    /\ isAddDocumentsModalOpen
    /\ isAddDocumentsModalOpen' = FALSE
    /\ documents' = <<>>
    /\ documentsError' = NoError
    /\ ev' = Event("addClose", <<>>, <<>>, 0)
    /\ UNCHANGED <<currentIndex, searchVars, queryVars, editVars, confirmModal, mutations>>

----------------------------------------------------------------------------
(* Updating and deleting a hit.                                            *)

hitsShown == searchData # NoIndex

onClickDocumentUpdate ==
    /\ pageShown /\ hitsShown
    /\ isEditDocumentsModalOpen' = TRUE
    /\ editingDocument' = Hit(searchData)
    /\ ev' = Event("onClickDocumentUpdate", <<>>, <<>>, 0)
    /\ UNCHANGED <<currentIndex, searchVars, queryVars, addVars, confirmModal, mutations>>

onEditDocumentJsonEditorUpdate ==
    /\ isEditDocumentsModalOpen
    /\ editingDocument' = [editingDocument EXCEPT !.rev = 1 - @]
    /\ ev' = Event("onEditDocumentJsonEditorUpdate", <<>>, <<>>, 0)
    /\ UNCHANGED <<currentIndex, searchVars, queryVars, addVars, isEditDocumentsModalOpen,
                   confirmModal, mutations>>

\* editingDocument && editDocumentMutation.mutate([editingDocument])
onSubmitDocumentUpdate ==
    /\ isEditDocumentsModalOpen
    /\ IF editingDocument # NoDoc
       THEN /\ InFlight < MaxInFlight
            /\ mutations' = Mutate("update")
            /\ ev' = Event("onSubmitDocumentUpdate",
                           <<UpdateDocumentsCall(currentIndex, editingDocument)>>, <<>>, 0)
       ELSE /\ ev' = Event("onSubmitDocumentUpdate", <<>>, <<>>, 0)
            /\ UNCHANGED mutations
    /\ UNCHANGED <<currentIndex, searchVars, queryVars, addVars, editVars, confirmModal>>

\* The edit modal's onClose
EditClose ==
    /\ isEditDocumentsModalOpen
    /\ isEditDocumentsModalOpen' = FALSE
    /\ editingDocument' = NoDoc
    /\ ev' = Event("editClose", <<>>, <<>>, 0)
    /\ UNCHANGED <<currentIndex, searchVars, queryVars, addVars, confirmModal, mutations>>

onClickDocumentDel ==
    /\ pageShown /\ hitsShown
    /\ LET pk == pkData.val
       IN  IF Truthy(pk)
           THEN /\ confirmModal' = [open |-> TRUE, pkFrom |-> pkData.from,
                                    docFrom |-> searchData]
                /\ ev' = Event("onClickDocumentDel", <<>>, <<>>, 0)
           ELSE /\ ev' = Event("onClickDocumentDel", <<>>, <<"danger">>, 0)
                /\ UNCHANGED confirmModal
    /\ UNCHANGED <<currentIndex, searchVars, queryVars, addVars, editVars, mutations>>

\* onConfirm: removeDocumentsMutation.mutate([doc[pk]])
ConfirmDelete ==
    /\ confirmModal.open
    /\ InFlight < MaxInFlight
    /\ mutations' = Mutate("delete")
    /\ confirmModal' = NoConfirm
    /\ ev' = Event("confirmDelete",
                   <<DeleteDocumentsCall(currentIndex, confirmModal.docFrom, confirmModal.pkFrom)>>,
                   <<>>, 0)
    /\ UNCHANGED <<currentIndex, searchVars, queryVars, addVars, editVars>>

CancelDelete ==
    /\ confirmModal.open
    /\ confirmModal' = NoConfirm
    /\ ev' = Event("cancelDelete", <<>>, <<>>, 0)
    /\ UNCHANGED <<currentIndex, searchVars, queryVars, addVars, editVars, mutations>>

----------------------------------------------------------------------------
(* Completion of a mutation request: onSuccess for a request that was     *)
(* sent and answered, onError for one that failed or was never sent.       *)
(* useMutation does not retry.                                             *)

Settles(kind, sent) ==
    /\ mutations[[kind |-> kind, sent |-> sent]] > 0
    /\ mutations' = [mutations EXCEPT ![[kind |-> kind, sent |-> sent]] = @ - 1]

\* addDocumentsMutation.onSuccess
addDocumentsOnSuccess ==
    /\ Settles("add", TRUE)
    /\ isAddDocumentsModalOpen' = FALSE
    /\ documents' = <<>>
    /\ documentsError' = NoError
    /\ ev' = Event("addDocumentsOnSuccess", <<>>, <<"success">>, 0)
    /\ UNCHANGED <<currentIndex, searchVars, queryVars, editVars, confirmModal>>

\* addDocumentsMutation.onError
addDocumentsOnError(sent) ==
    /\ Settles("add", sent)
    /\ ev' = Event("addDocumentsOnError", <<>>, <<"error">>, 0)
    /\ UNCHANGED <<currentIndex, searchVars, queryVars, addVars, editVars, confirmModal>>

\* removeDocumentsMutation.onSuccess
removeDocumentsOnSuccess ==
    /\ Settles("delete", TRUE)
    /\ searchFetching' = RefetchFetching
    /\ ev' = Event("removeDocumentsOnSuccess", RefetchCalls, <<"success">>, 1)
    /\ UNCHANGED <<currentIndex, searchVars, pkData, pkFetching, searchData, addVars,
                   editVars, confirmModal>>

\* A variant whose error handler refetches as the success handler does.
removeDocumentsOnError_Refetch(sent) ==
    /\ Settles("delete", sent)
    /\ searchFetching' = RefetchFetching
    /\ ev' = Event("removeDocumentsOnError", RefetchCalls, <<"error">>, 1)
    /\ UNCHANGED <<currentIndex, searchVars, pkData, pkFetching, searchData, addVars,
                   editVars, confirmModal>>

\* removeDocumentsMutation.onError
removeDocumentsOnError(sent) ==
    /\ Settles("delete", sent)
    /\ ev' = Event("removeDocumentsOnError", <<>>, <<"error">>, 0)
    /\ UNCHANGED <<currentIndex, searchVars, queryVars, addVars, editVars, confirmModal>>

\* editDocumentMutation.onSuccess
editDocumentOnSuccess ==
    /\ Settles("update", TRUE)
    /\ isEditDocumentsModalOpen' = FALSE
    /\ searchFetching' = RefetchFetching
    /\ ev' = Event("editDocumentOnSuccess", RefetchCalls, <<"success">>, 1)
    /\ UNCHANGED <<currentIndex, searchVars, pkData, pkFetching, searchData, addVars,
                   editingDocument, confirmModal>>

\* editDocumentMutation.onError
editDocumentOnError(sent) ==
    /\ Settles("update", sent)
    /\ ev' = Event("editDocumentOnError", <<>>, <<"error">>, 0)
    /\ UNCHANGED <<currentIndex, searchVars, queryVars, addVars, editVars, confirmModal>>

----------------------------------------------------------------------------
(* Specifications.  Next is the whole page.                                *)

Next ==
    \/ \E i \in Indexes \cup {NoIndex} : Navigate(i)
    \/ PrimaryKeyPoll \/ PrimaryKeyOk \/ PrimaryKeyFail
    \/ SearchPoll \/ SearchOk \/ SearchFail
    \/ \E v \in Limits : SetLimit(v)
    \/ \E c \in SortAlphabet : TypeSort(c)
    \/ EraseSort
    \/ SearchSubmit
    \/ \E clip \in Clipboards : onAddDocumentsClick(clip)
    \/ EditorAdd
    \/ \E k \in 1..Len(documents) : EditorEdit(k)
    \/ \E k \in 1..Len(documents) : EditorDelete(k)
    \/ AddSubmit \/ AddClose
    \/ onClickDocumentUpdate \/ onEditDocumentJsonEditorUpdate
    \/ onSubmitDocumentUpdate \/ EditClose
    \/ onClickDocumentDel \/ ConfirmDelete \/ CancelDelete
    \/ addDocumentsOnSuccess
    \/ \E sent \in BOOLEAN : addDocumentsOnError(sent)
    \/ removeDocumentsOnSuccess
    \/ \E sent \in BOOLEAN : removeDocumentsOnError(sent)
    \/ editDocumentOnSuccess
    \/ \E sent \in BOOLEAN : editDocumentOnError(sent)

Spec == Init /\ [][Next]_vars

\* The parts of the page.  A handler reads and writes the state of its own
\* part, the selected index and the queries, so each part is explored with
\* its own handlers and the events of the environment they depend on.

Settle ==
    \/ PrimaryKeyOk \/ PrimaryKeyFail
    \/ SearchOk \/ SearchFail

NextSort ==
    \/ \E c \in SortAlphabet : TypeSort(c)
    \/ EraseSort
    \/ SearchPoll \/ SearchOk \/ SearchFail

SpecSort == Init /\ [][NextSort]_vars

NextSearch ==
    \/ \E i \in Indexes \cup {NoIndex} : Navigate(i)
    \/ PrimaryKeyPoll \/ SearchPoll \/ Settle
    \/ \E v \in Limits : SetLimit(v)
    \/ SearchSubmit

SpecSearch == Init /\ [][NextSearch]_vars

NextAdd ==
    \/ \E i \in Indexes \cup {NoIndex} : Navigate(i)
    \/ \E clip \in Clipboards : onAddDocumentsClick(clip)
    \/ EditorAdd
    \/ \E k \in 1..Len(documents) : EditorEdit(k)
    \/ \E k \in 1..Len(documents) : EditorDelete(k)
    \/ AddSubmit \/ AddClose
    \/ addDocumentsOnSuccess
    \/ \E sent \in BOOLEAN : addDocumentsOnError(sent)

SpecAdd == Init /\ [][NextAdd]_vars

NextDocs ==
    \/ \E i \in Indexes \cup {NoIndex} : Navigate(i)
    \/ PrimaryKeyPoll \/ SearchPoll \/ Settle
    \/ onClickDocumentUpdate \/ onEditDocumentJsonEditorUpdate
    \/ onSubmitDocumentUpdate \/ EditClose
    \/ onClickDocumentDel \/ ConfirmDelete \/ CancelDelete
    \/ removeDocumentsOnSuccess
    \/ \E sent \in BOOLEAN : removeDocumentsOnError(sent)
    \/ editDocumentOnSuccess
    \/ \E sent \in BOOLEAN : editDocumentOnError(sent)

SpecDocs == Init /\ [][NextDocs]_vars

\* The three mutations together, with the answers that put hits and a
\* primary key on screen.
NextMutations ==
    \/ NextAdd
    \/ PrimaryKeyOk \/ SearchOk
    \/ onClickDocumentUpdate \/ onEditDocumentJsonEditorUpdate
    \/ onSubmitDocumentUpdate \/ EditClose
    \/ onClickDocumentDel \/ ConfirmDelete \/ CancelDelete
    \/ removeDocumentsOnSuccess
    \/ \E sent \in BOOLEAN : removeDocumentsOnError(sent)
    \/ editDocumentOnSuccess
    \/ \E sent \in BOOLEAN : editDocumentOnError(sent)

SpecMutations == Init /\ [][NextMutations]_vars

----------------------------------------------------------------------------
(* Properties.                                                             *)

SuccessOps == {"addDocumentsOnSuccess", "removeDocumentsOnSuccess", "editDocumentOnSuccess"}
ErrorOps   == {"addDocumentsOnError", "removeDocumentsOnError", "editDocumentOnError"}

\* C1: the completion handler of every successful add, update or delete
\* triggers exactly one refetch of the search and shows exactly one success
\* notification.
C1_SuccessRefetchesAndNotifiesOnce ==
    ev.op \in SuccessOps =>
        /\ ev.refetch = 1
        /\ Count(ev.notifs, "success") = 1
        /\ Len(ev.notifs) = 1

\* C2: a click on Delete while the selected index has no primary key shows a
\* danger notification and opens no confirm dialog, and no delete request is
\* sent to an index without a primary key.
C2_NoPrimaryKeyBlocksDelete ==
    /\ (ev.op = "onClickDocumentDel" /\ ~Truthy(PrimaryKey(currentIndex))) =>
           (ev.notifs = <<"danger">> /\ ~confirmModal.open)
    /\ \A c \in CallsOf(ev) :
           (c.api = "deleteDocuments" /\ c.client # NoIndex) => Truthy(PrimaryKey(c.client))

\* C3: no search call carries a limit of 500 or more.
C3_SearchLimitBelowCap ==
    \A c \in CallsOf(ev) : c.api = "search" => c.limit < LimitCap

\* C4: a submit of the search form with limit >= 500 sets the limit error and
\* does not run the submit handler; with limit < 500 the handler runs and
\* refetches once.
C4_SubmitValidatesLimit ==
    ev.op = "searchSubmit" =>
        IF limit >= LimitCap
        THEN limitError = LimitMsg /\ ev.refetch = 0 /\ ev.calls = <<>>
        ELSE limitError = NoError /\ ev.refetch = 1

C4_Witness ==
    /\ ev.op = "searchSubmit"
    /\ limit >= LimitCap
    /\ limitError = LimitMsg
    /\ ev.refetch = 0

\* C5: addDocuments is never called with an empty batch; a submit of the add
\* form with an empty batch sets the 'Added documents ...' error, shows one
\* yellow notification, sends nothing and leaves the modal and the batch as
\* they were.
C5_EmptyBatchRejected ==
    /\ [](\A c \in CallsOf(ev) : c.api = "addDocuments" => Len(c.docs) > 0)
    /\ [][(ev'.op = "addSubmit" /\ Len(documents) = 0) =>
              /\ documentsError' = DocsMsg
              /\ ev'.notifs = <<"yellow">>
              /\ ev'.calls = <<>>
              /\ UNCHANGED <<isAddDocumentsModalOpen, documents, mutations>>]_vars

C5_Witness ==
    /\ ev.op = "addSubmit"
    /\ documents = <<>>
    /\ documentsError = DocsMsg
    /\ ev.notifs = <<"yellow">>
    /\ isAddDocumentsModalOpen

\* The sort list the claim C6 describes, read off the string from left to
\* right: a segment ends at each comma and at the end, loses the white space
\* at both ends, and is dropped when nothing is left.
RECURSIVE StripLeft(_)
StripLeft(s) ==
    IF s # <<>> /\ Head(s) \in Whitespace THEN StripLeft(Tail(s)) ELSE s

RECURSIVE StripRight(_)
StripRight(s) ==
    IF s # <<>> /\ s[Len(s)] \in Whitespace
    THEN StripRight(SubSeq(s, 1, Len(s) - 1))
    ELSE s

Flush(segment) ==
    LET t == StripRight(StripLeft(segment))
    IN  IF t = <<>> THEN <<>> ELSE <<t>>

RECURSIVE Scan(_, _, _)
Scan(rest, segment, out) ==
    IF rest = <<>> THEN out \o Flush(segment)
    ELSE IF Head(rest) = "," THEN Scan(Tail(rest), <<>>, out \o Flush(segment))
    ELSE Scan(Tail(rest), Append(segment, Head(rest)), out)

ExpectedSort(s) == Scan(s, <<>>, <<>>)

\* C6: the sort list of every search call is the sort string split on commas,
\* each segment trimmed, the empty ones dropped, in order; 'a, b' gives
\* ['a', 'b'] and '' gives [].
C6_SortForwardedTrimmed ==
    /\ \A c \in CallsOf(ev) : c.api = "search" => c.sort = ExpectedSort(sort)
    /\ SortList(<<"a", ",", " ", "b">>) = << <<"a">>, <<"b">> >>
    /\ SortList(<<>>) = <<>>

C6_Witness ==
    /\ ev.op = "setSort"
    /\ sort = <<"a", ",", " ", "b">>
    /\ ev.calls[1].sort = << <<"a">>, <<"b">> >>

\* C7: a failed add, update or delete shows exactly one error notification,
\* is not sent again (no call is made and the request leaves the requests in
\* flight), triggers no refetch, and changes neither the modals nor the batch
\* or the document being edited.
C7_FailureIsTerminal ==
    [][ev'.op \in ErrorOps =>
          /\ ev'.notifs = <<"error">>
          /\ ev'.refetch = 0
          /\ ev'.calls = <<>>
          /\ InFlight' = InFlight - 1
          /\ UNCHANGED <<isAddDocumentsModalOpen, isEditDocumentsModalOpen, confirmModal,
                         documents, editingDocument, searchFetching, searchData>>]_vars

C7_Witness ==
    /\ ev.op = "editDocumentOnError"
    /\ ev.notifs = <<"error">>
    /\ isEditDocumentsModalOpen
    /\ editingDocument # NoDoc

\* C8: every primary-key lookup and every search call is made while an index
\* is selected, through the client of the index selected at that moment.
C8_QueriesTargetSelectedIndex ==
    \A c \in CallsOf(ev) :
        c.api \in {"getRawInfo", "search"} =>
            (c.client # NoIndex /\ c.client = currentIndex)

\* The texts of the clipboard's text/plain items.
HeldTexts(clip) ==
    IF clip.ok
    THEN {clip.items[k].text : k \in {j \in 1..Len(clip.items) :
                                        "text/plain" \in clip.items[j].types}}
    ELSE {}

\* A text that parses as a JSON array of length > 0 or as a JSON object, and
\* the batch it stands for.
Pastable(t) ==
    LET json == JSONParse(t)
    IN  /\ json.ok
        /\ \/ json.type = "array" /\ Len(json.items) > 0
           \/ json.type = "object"

PastedBatch(t) ==
    IF JSONParse(t).type = "array" THEN JSONParse(t).items ELSE <<t>>

\* C9: a click on 'Add Documents' opens the add modal and surfaces no error;
\* the batch changes only to a text/plain JSON array of length > 0 held by the
\* clipboard, or to the one-element array of a JSON object held by it, and a
\* clipboard whose first item is such a text does set it.
C9_ClipboardPaste ==
    [][ev'.op = "onAddDocumentsClick" =>
          /\ isAddDocumentsModalOpen'
          /\ ev'.notifs = <<>>
          /\ documentsError' = NoError
          /\ \/ documents' = documents
             \/ \E t \in HeldTexts(ev'.clip) :
                    Pastable(t) /\ documents' = PastedBatch(t)
          /\ \A t \in ClipTexts :
                 (ev'.clip = [ok |-> TRUE, items |-> <<TextItem(t)>>] /\ Pastable(t))
                 => documents' = PastedBatch(t)]_vars

C9_Witness ==
    /\ ev.op = "onAddDocumentsClick"
    /\ ev.clip = [ok |-> TRUE, items |-> <<TextItem("{}")>>]
    /\ documents = <<"{}">>
    /\ isAddDocumentsModalOpen

\* C10: every update or delete request goes to the index that returned the
\* hit it acts on, and a delete uses the primary key of that same index.
C10_MutationTargetsSourceIndex ==
    \A c \in CallsOf(ev) :
        /\ c.api = "updateDocuments" => c.docFrom = c.client
        /\ c.api = "deleteDocuments" => (c.docFrom = c.client /\ c.pkFrom = c.client)

====
